---- MODULE Spec2Model ----
(***************************************************************************)
(* Model of setup.py of prophet: backend selection from STAN_BACKEND, the  *)
(* model-build loop (build_models), the build_py / develop hooks and the   *)
(* test command's with_project_on_sys_path.                                *)
(*                                                                         *)
(* A string is a sequence of pieces; a piece is either the comma or a      *)
(* comma-free, non-empty chunk of text.  No chunk is a concatenation of    *)
(* other chunks, so two names are equal exactly when their piece sequences *)
(* are equal.                                                              *)
(***************************************************************************)
EXTENDS Integers, Sequences, FiniteSets, TLC

VARIABLES
    env,          \* os.environ["STAN_BACKEND"]: [set, val]
    dry_run,      \* the distutils dry-run flag of the command
    cmd,          \* the command being run: build_py, develop or test
    pc,           \* position inside BuildPyCommand.run / DevelopCommand.run
    tpc,          \* position inside TestCommand.with_project_on_sys_path
    target_dir,   \* local target_dir of run
    dirs,         \* directories that exist
    files,        \* artifacts on disk: <<directory, backend name>>
    backends,     \* the list build_models iterates over
    idx,          \* index of the loop of build_models (1-based)
    log,          \* calls made in this invocation, in order
    err,          \* the exception in flight, "none" when there is none
    sys_path,     \* sys.path
    sys_modules,  \* keys of sys.modules
    old_path,     \* local old_path of with_project_on_sys_path
    old_modules,  \* local old_modules of with_project_on_sys_path
    entry,        \* sys.path, sys.modules, dirs, files at entry to the command
    last_run      \* per target directory: the artifacts the last completed
                  \* run of build_models left there

vars == <<env, dry_run, cmd, pc, tpc, target_dir, dirs, files, backends, idx,
          log, err, sys_path, sys_modules, old_path, old_modules, entry,
                   last_run>>

----------------------------------------------------------------------------
(* Bounds *)

MaxEnvLen == 5

----------------------------------------------------------------------------
(* Strings *)

Comma == ","

Chunks == {"PYSTAN", "CMDSTANPY", "backendX"}

Pieces == Chunks \cup {Comma}

EnvStrings == UNION {[1..n -> Pieces] : n \in 0..MaxEnvLen}

Unset == [set |-> FALSE, val |-> <<>>]

EnvValues == {Unset} \cup {[set |-> TRUE, val |-> s] : s \in EnvStrings}

HasComma(s) == \E i \in 1..Len(s) : s[i] = Comma

FirstComma(s) == CHOOSE i \in 1..Len(s) :
                    s[i] = Comma /\ \A j \in 1..(i-1) : s[j] # Comma

\* Variant: split(",", 1), which cuts at the first comma only.
SplitOnce(s) ==
    IF ~HasComma(s) THEN <<s>>
    ELSE LET i == FirstComma(s)
         IN  <<SubSeq(s, 1, i-1), SubSeq(s, i+1, Len(s))>>


RECURSIVE Split(_)
Split(s) ==
    IF ~HasComma(s) THEN <<s>>
    ELSE LET i == FirstComma(s)
         IN  <<SubSeq(s, 1, i-1)>> \o Split(SubSeq(s, i+1, Len(s)))

----------------------------------------------------------------------------
(* Constants of setup.py and of fbprophet.models *)

PYSTAN == <<"PYSTAN">>

CMDSTANPY == <<"CMDSTANPY">>

StanBackendEnum == {PYSTAN, CMDSTANPY}

MODEL_TARGET_DIR == "fbprophet/stan_model"

build_lib == "build_lib"

setup_path == "setup_path"

PathJoin(a, b) == <<a, b>>

TargetDirOf(c) ==
    IF c = "develop" THEN PathJoin(setup_path, MODEL_TARGET_DIR)
    ELSE PathJoin(build_lib, MODEL_TARGET_DIR)

TargetDirs == {TargetDirOf(c) : c \in {"build_py", "develop"}}

Commands == {"build_py", "develop", "test"}

InitPath == <<"site-packages">>

InitModules == {"setuptools"}

ModelsModule == "fbprophet.models"

TestModules == {"fbprophet.tests", "fbprophet.forecaster"}

----------------------------------------------------------------------------
(* fbprophet.models: the registry lookup and the per-backend builder *)

\* StanBackendEnum.get_backend_class(name): TRUE when the lookup returns a
\* backend class, FALSE when it raises for an unknown name.
get_backend_class(name) == name \in StanBackendEnum

\* <backend class>.build_model(target_dir, MODEL_DIR) on success: the
\* backend-qualified artifact is (re)written under target_dir.
build_model(fs, dir, name) == fs \cup {<<dir, name>>}

----------------------------------------------------------------------------
(* The loop of build_models as a function of the filesystem *)

\* Variant: the target directory is emptied before each builder runs.
RECURSIVE build_models_clean(_, _, _)
build_models_clean(fs, dir, list) ==
    IF list = <<>> THEN fs
    ELSE build_models_clean(
             build_model({f \in fs : f[1] # dir}, dir, Head(list)),
             dir, Tail(list))

\* build_models(target_dir) when no call raises: the filesystem after the
\* builders of the names of list have run, in list order, on filesystem fs
RECURSIVE build_models(_, _, _)
build_models(fs, dir, list) ==
    IF list = <<>> THEN fs
    ELSE build_models(build_model(fs, dir, Head(list)), dir, Tail(list))

----------------------------------------------------------------------------
(* Backend selection *)

\* os.environ.get("STAN_BACKEND", StanBackendEnum.PYSTAN.name)
EnvironGet == IF env.set THEN env.val ELSE PYSTAN

\* Variant: a present-but-blank value falls back to the default name.
get_backends_blank_default ==
    Split(IF env.set /\ env.val # <<>> THEN env.val ELSE PYSTAN)


get_backends_from_env == Split(EnvironGet)

----------------------------------------------------------------------------
(* The call log *)

Event(op, arg, res) == [op |-> op, arg |-> arg, res |-> res]

Logged(op) == {i \in DOMAIN log : log[i].op = op}

DefaultRuns == Cardinality(Logged("default"))

Snapshot == [path |-> sys_path, modules |-> sys_modules,
             dirs |-> dirs, files |-> files]

\* the artifacts under one target directory
ArtifactsIn(dir) == {f \in files : f[1] = dir}

----------------------------------------------------------------------------
(* State after the process starts and setup() dispatches its first command *)

Init ==
    /\ env \in EnvValues
    /\ dry_run \in BOOLEAN
    /\ cmd \in Commands
    /\ pc = "Idle"
    /\ tpc = IF cmd = "test" THEN "build_py" ELSE "none"
    /\ target_dir = <<>>
    /\ dirs = {}
    /\ files = {}
    /\ backends = <<>>
    /\ idx = 0
    /\ log = <<>>
    /\ err = "none"
    /\ sys_path = InitPath
    /\ sys_modules = InitModules
    /\ old_path = <<>>
    /\ old_modules = {}
    /\ entry = [path |-> InitPath, modules |-> InitModules,
                dirs |-> {}, files |-> {}]
    /\ last_run = [d \in TargetDirs |-> [done |-> FALSE, files |-> {}]]

----------------------------------------------------------------------------
(* BuildPyCommand.run and DevelopCommand.run *)

\* Variant: run ignores self.dry_run.
RunEnterIgnoreDryRun ==
    /\ pc = "Idle"
    /\ pc' = "EnsureTargetDir"
    /\ target_dir' = TargetDirOf(cmd)
    /\ UNCHANGED <<env, dry_run, cmd, tpc, dirs, files, backends, idx, log,
                   err, sys_path, sys_modules, old_path, old_modules, entry,
                   last_run>>

\* "if not self.dry_run:" and the computation of target_dir
RunEnter ==
    /\ pc = "Idle"
    /\ IF dry_run
       THEN /\ pc' = "DefaultLifecycleAction"
            /\ UNCHANGED target_dir
       ELSE /\ pc' = "EnsureTargetDir"
            /\ target_dir' = TargetDirOf(cmd)
    /\ UNCHANGED <<env, dry_run, cmd, tpc, dirs, files, backends, idx, log,
                   err, sys_path, sys_modules, old_path, old_modules, entry,
                   last_run>>

\* Variant: run also puts the target directory on sys.path.
MkpathAddsPath ==
    /\ pc = "EnsureTargetDir"
    /\ dirs' = dirs \cup {target_dir}
    /\ sys_path' = Append(sys_path, target_dir[1])
    /\ log' = Append(log, Event("mkpath", target_dir, "ok"))
    /\ pc' = "select"
    /\ UNCHANGED <<env, dry_run, cmd, tpc, target_dir, files, backends, idx,
                   err, sys_modules, old_path, old_modules, entry, last_run>>

\* self.mkpath(target_dir)
Mkpath ==
    /\ pc = "EnsureTargetDir"
    /\ dirs' = dirs \cup {target_dir}
    /\ log' = Append(log, Event("mkpath", target_dir, "ok"))
    /\ pc' = "select"
    /\ UNCHANGED <<env, dry_run, cmd, tpc, target_dir, files, backends, idx,
                   err, sys_path, sys_modules, old_path, old_modules, entry,
                   last_run>>

\* build_models: the imports of fbprophet.models and the evaluation of
\* get_backends_from_env() that the for loop iterates over
BuildModelsSelect ==
    /\ pc = "select"
    /\ sys_modules' = sys_modules \cup {ModelsModule}
    /\ backends' = get_backends_from_env
    /\ idx' = 1
    /\ log' = Append(log, Event("getenv", <<>>, "ok"))
    /\ pc' = IF Len(backends') >= 1 THEN "resolve"
             ELSE "DefaultLifecycleAction"
    /\ UNCHANGED <<env, dry_run, cmd, tpc, target_dir, dirs, files, err,
                   sys_path, old_path, old_modules, entry,
                   last_run>>

\* Variant: an unknown name is skipped instead of raising.
BuildModelsResolveSkip ==
    /\ pc = "resolve"
    /\ IF get_backend_class(backends[idx])
       THEN /\ log' = Append(log, Event("resolve", backends[idx], "ok"))
            /\ pc' = "build"
            /\ UNCHANGED idx
       ELSE /\ log' = Append(log, Event("resolve", backends[idx],
                                        "ConfigurationError"))
            /\ idx' = idx + 1
            /\ pc' = IF idx < Len(backends) THEN "resolve"
                     ELSE "DefaultLifecycleAction"
    /\ UNCHANGED <<env, dry_run, cmd, tpc, target_dir, dirs, files, backends,
                   err, sys_path, sys_modules, old_path, old_modules, entry,
                   last_run>>

\* build_models: StanBackendEnum.get_backend_class(backend); an unknown name
\* raises and nothing in build_models or run catches it
BuildModelsResolve ==
    /\ pc = "resolve"
    /\ IF get_backend_class(backends[idx])
       THEN /\ log' = Append(log, Event("resolve", backends[idx], "ok"))
            /\ pc' = "build"
            /\ UNCHANGED err
       ELSE /\ log' = Append(log, Event("resolve", backends[idx],
                                        "ConfigurationError"))
            /\ pc' = "Failed"
            /\ err' = "ConfigurationError"
    /\ UNCHANGED <<env, dry_run, cmd, tpc, target_dir, dirs, files, backends,
                   idx, sys_path, sys_modules, old_path, old_modules, entry,
                   last_run>>

\* Variant: the loop ends after the first successful builder.
BuildModelsBuildFirstOnly ==
    /\ pc = "build"
    /\ \E ok \in BOOLEAN :
          IF ok
          THEN /\ files' = build_model(files, target_dir, backends[idx])
               /\ log' = Append(log, Event("build_model", backends[idx], "ok"))
               /\ idx' = idx + 1
               /\ pc' = "DefaultLifecycleAction"
               /\ UNCHANGED err
          ELSE /\ log' = Append(log, Event("build_model", backends[idx],
                                           "BuildError"))
               /\ pc' = "Failed"
               /\ err' = "BuildError"
               /\ UNCHANGED <<files, idx>>
    /\ UNCHANGED <<env, dry_run, cmd, tpc, target_dir, dirs, backends,
                   sys_path, sys_modules, old_path, old_modules, entry,
                   last_run>>

\* Variant: a builder failure is caught and the loop goes on.
BuildModelsBuildContinue ==
    /\ pc = "build"
    /\ \E ok \in BOOLEAN :
          /\ files' = IF ok THEN build_model(files, target_dir, backends[idx])
                      ELSE files
          /\ log' = Append(log, Event("build_model", backends[idx],
                                      IF ok THEN "ok" ELSE "BuildError"))
          /\ idx' = idx + 1
          /\ pc' = IF idx < Len(backends) THEN "resolve"
                   ELSE IF ok THEN "DefaultLifecycleAction" ELSE "Failed"
          /\ err' = IF ok THEN err ELSE "BuildError"
    /\ UNCHANGED <<env, dry_run, cmd, tpc, target_dir, dirs, backends,
                   sys_path, sys_modules, old_path, old_modules, entry,
                   last_run>>

\* Variant: a builder failure removes what this run wrote before raising.
BuildModelsBuildRollback ==
    /\ pc = "build"
    /\ \E ok \in BOOLEAN :
          IF ok
          THEN /\ files' = build_model(files, target_dir, backends[idx])
               /\ log' = Append(log, Event("build_model", backends[idx], "ok"))
               /\ idx' = idx + 1
               /\ pc' = IF idx < Len(backends) THEN "resolve"
                        ELSE "DefaultLifecycleAction"
               /\ UNCHANGED err
          ELSE /\ log' = Append(log, Event("build_model", backends[idx],
                                           "BuildError"))
               /\ pc' = "Failed"
               /\ err' = "BuildError"
               /\ files' = entry.files
               /\ UNCHANGED idx
    /\ UNCHANGED <<env, dry_run, cmd, tpc, target_dir, dirs, backends,
                   sys_path, sys_modules, old_path, old_modules, entry,
                   last_run>>

\* Variant: a name whose artifact this run already wrote is not built again.
BuildModelsBuildSkipBuilt ==
    /\ pc = "build"
    /\ \E ok \in BOOLEAN :
          IF \E i \in Logged("build_model") : log[i].arg = backends[idx]
          THEN /\ idx' = idx + 1
               /\ pc' = IF idx < Len(backends) THEN "resolve"
                        ELSE "DefaultLifecycleAction"
               /\ UNCHANGED <<files, log, err>>
          ELSE IF ok
          THEN /\ files' = build_model(files, target_dir, backends[idx])
               /\ log' = Append(log, Event("build_model", backends[idx], "ok"))
               /\ idx' = idx + 1
               /\ pc' = IF idx < Len(backends) THEN "resolve"
                        ELSE "DefaultLifecycleAction"
               /\ UNCHANGED err
          ELSE /\ log' = Append(log, Event("build_model", backends[idx],
                                           "BuildError"))
               /\ pc' = "Failed"
               /\ err' = "BuildError"
               /\ UNCHANGED <<files, idx>>
    /\ UNCHANGED <<env, dry_run, cmd, tpc, target_dir, dirs, backends,
                   sys_path, sys_modules, old_path, old_modules, entry,
                   last_run>>

\* Variant: an artifact that already exists is not overwritten; the new
\* output is written next to it under a second name.
BuildModelsBuildDuplicate ==
    /\ pc = "build"
    /\ \E ok \in BOOLEAN :
          IF ok
          THEN /\ files' =
                    IF <<target_dir, backends[idx]>> \in entry.files
                    THEN build_model(files, target_dir,
                                     backends[idx] \o <<"1">>)
                    ELSE build_model(files, target_dir, backends[idx])
               /\ log' = Append(log, Event("build_model", backends[idx], "ok"))
               /\ idx' = idx + 1
               /\ pc' = IF idx < Len(backends) THEN "resolve"
                        ELSE "DefaultLifecycleAction"
               /\ UNCHANGED err
          ELSE /\ log' = Append(log, Event("build_model", backends[idx],
                                           "BuildError"))
               /\ pc' = "Failed"
               /\ err' = "BuildError"
               /\ UNCHANGED <<files, idx>>
    /\ UNCHANGED <<env, dry_run, cmd, tpc, target_dir, dirs, backends,
                   sys_path, sys_modules, old_path, old_modules, entry,
                   last_run>>

\* build_models: .build_model(target_dir, MODEL_DIR), then the next iteration
\* or the end of the loop; a builder failure raises out of the loop
BuildModelsBuild ==
    /\ pc = "build"
    /\ \E ok \in BOOLEAN :
          IF ok
          THEN /\ files' = build_model(files, target_dir, backends[idx])
               /\ log' = Append(log, Event("build_model", backends[idx], "ok"))
               /\ idx' = idx + 1
               /\ pc' = IF idx < Len(backends) THEN "resolve"
                        ELSE "DefaultLifecycleAction"
               /\ UNCHANGED err
          ELSE /\ log' = Append(log, Event("build_model", backends[idx],
                                           "BuildError"))
               /\ pc' = "Failed"
               /\ err' = "BuildError"
               /\ UNCHANGED <<files, idx>>
    /\ UNCHANGED <<env, dry_run, cmd, tpc, target_dir, dirs, backends,
                   sys_path, sys_modules, old_path, old_modules, entry,
                   last_run>>

\* Variant: the default action sits in a finally block of run.
DefaultActionAlways ==
    /\ \/ pc = "DefaultLifecycleAction"
       \/ pc = "Failed" /\ Logged("default") = {}
    /\ \E ok \in BOOLEAN :
          /\ log' = Append(log, Event("default", <<cmd>>,
                                      IF ok THEN "ok" ELSE "DistutilsError"))
          /\ pc' = IF ok /\ pc # "Failed" THEN "Done" ELSE "Failed"
          /\ err' = IF ok THEN err ELSE "DistutilsError"
    /\ UNCHANGED <<env, dry_run, cmd, tpc, target_dir, dirs, files, backends,
                   idx, sys_path, sys_modules, old_path, old_modules, entry,
                   last_run>>

\* build_py.run(self) / develop.run(self)
DefaultAction ==
    /\ pc = "DefaultLifecycleAction"
    /\ \E ok \in BOOLEAN :
          /\ log' = Append(log, Event("default", <<cmd>>,
                                      IF ok THEN "ok" ELSE "DistutilsError"))
          /\ pc' = IF ok THEN "Done" ELSE "Failed"
          /\ err' = IF ok THEN err ELSE "DistutilsError"
    /\ UNCHANGED <<env, dry_run, cmd, tpc, target_dir, dirs, files, backends,
                   idx, sys_path, sys_modules, old_path, old_modules, entry,
                   last_run>>

----------------------------------------------------------------------------
(* TestCommand.with_project_on_sys_path *)

\* Variant: a failure of the build_py command is ignored.
TestBuildPyIgnoreFailure ==
    /\ tpc = "build_py"
    /\ pc \in {"Done", "Failed"}
    /\ tpc' = "egg_info"
    /\ UNCHANGED <<env, dry_run, cmd, pc, target_dir, dirs, files, backends,
                   idx, log, err, sys_path, sys_modules, old_path,
                   old_modules, entry, last_run>>

\* self.run_command('build_py') returns or raises
TestBuildPy ==
    /\ tpc = "build_py"
    /\ pc \in {"Done", "Failed"}
    /\ tpc' = IF pc = "Done" THEN "egg_info" ELSE "raised"
    /\ UNCHANGED <<env, dry_run, cmd, pc, target_dir, dirs, files, backends,
                   idx, log, err, sys_path, sys_modules, old_path,
                   old_modules, entry,
                   last_run>>

\* self.run_command('egg_info')
TestEggInfo ==
    /\ tpc = "egg_info"
    /\ \E ok \in BOOLEAN :
          /\ log' = Append(log, Event("egg_info", <<>>,
                                      IF ok THEN "ok" ELSE "DistutilsError"))
          /\ tpc' = IF ok THEN "build_ext" ELSE "raised"
          /\ err' = IF ok THEN err ELSE "DistutilsError"
    /\ UNCHANGED <<env, dry_run, cmd, pc, target_dir, dirs, files, backends,
                   idx, sys_path, sys_modules, old_path, old_modules, entry,
                   last_run>>

\* self.run_command('build_ext')
TestBuildExt ==
    /\ tpc = "build_ext"
    /\ \E ok \in BOOLEAN :
          /\ log' = Append(log, Event("build_ext", <<>>,
                                      IF ok THEN "ok" ELSE "DistutilsError"))
          /\ tpc' = IF ok THEN "snapshot" ELSE "raised"
          /\ err' = IF ok THEN err ELSE "DistutilsError"
    /\ UNCHANGED <<env, dry_run, cmd, pc, target_dir, dirs, files, backends,
                   idx, sys_path, sys_modules, old_path, old_modules, entry,
                   last_run>>

\* old_path = sys.path[:] ; old_modules = sys.modules.copy()
TestSnapshot ==
    /\ tpc = "snapshot"
    /\ old_path' = sys_path
    /\ old_modules' = sys_modules
    /\ log' = Append(log, Event("snapshot", <<>>, "ok"))
    /\ tpc' = "insert"
    /\ UNCHANGED <<env, dry_run, cmd, pc, target_dir, dirs, files, backends,
                   idx, err, sys_path, sys_modules, entry,
                   last_run>>

\* Variant: the staging location is appended instead of inserted at index 0.
TestInsertAppend ==
    /\ tpc = "insert"
    /\ \E ok \in BOOLEAN :
          /\ sys_path' = IF ok THEN Append(sys_path, build_lib) ELSE sys_path
          /\ log' = Append(log, Event("insert", <<build_lib>>,
                                      IF ok THEN "ok" ELSE "Exception"))
          /\ tpc' = IF ok THEN "ws_init" ELSE "finally"
          /\ err' = IF ok THEN err ELSE "Exception"
    /\ UNCHANGED <<env, dry_run, cmd, pc, target_dir, dirs, files, backends,
                   idx, sys_modules, old_path, old_modules, entry, last_run>>

\* sys.path.insert(0, normalize_path(ei_cmd.egg_base))
TestInsert ==
    /\ tpc = "insert"
    /\ \E ok \in BOOLEAN :
          /\ sys_path' = IF ok THEN <<build_lib>> \o sys_path ELSE sys_path
          /\ log' = Append(log, Event("insert", <<build_lib>>,
                                      IF ok THEN "ok" ELSE "Exception"))
          /\ tpc' = IF ok THEN "ws_init" ELSE "finally"
          /\ err' = IF ok THEN err ELSE "Exception"
    /\ UNCHANGED <<env, dry_run, cmd, pc, target_dir, dirs, files, backends,
                   idx, sys_modules, old_path, old_modules, entry,
                   last_run>>

\* working_set.__init__()
TestWorkingSetInit ==
    /\ tpc = "ws_init"
    /\ \E ok \in BOOLEAN :
          /\ log' = Append(log, Event("ws_init", <<>>,
                                      IF ok THEN "ok" ELSE "Exception"))
          /\ tpc' = IF ok THEN "listener" ELSE "finally"
          /\ err' = IF ok THEN err ELSE "Exception"
    /\ UNCHANGED <<env, dry_run, cmd, pc, target_dir, dirs, files, backends,
                   idx, sys_path, sys_modules, old_path, old_modules, entry,
                   last_run>>

\* add_activation_listener(lambda dist: dist.activate())
TestAddListener ==
    /\ tpc = "listener"
    /\ \E ok \in BOOLEAN :
          /\ log' = Append(log, Event("listener", <<>>,
                                      IF ok THEN "ok" ELSE "Exception"))
          /\ tpc' = IF ok THEN "require" ELSE "finally"
          /\ err' = IF ok THEN err ELSE "Exception"
    /\ UNCHANGED <<env, dry_run, cmd, pc, target_dir, dirs, files, backends,
                   idx, sys_path, sys_modules, old_path, old_modules, entry,
                   last_run>>

\* require('%s==%s' % (ei_cmd.egg_name, ei_cmd.egg_version)); the listener
\* activates each required distribution, which may add its location to
\* sys.path
TestRequire ==
    /\ tpc = "require"
    /\ \E ok \in BOOLEAN, activated \in BOOLEAN :
          /\ sys_path' = IF activated THEN Append(sys_path, "dist")
                         ELSE sys_path
          /\ log' = Append(log, Event("require", <<>>,
                                      IF ok THEN "ok" ELSE "VersionConflict"))
          /\ tpc' = IF ok THEN "func" ELSE "finally"
          /\ err' = IF ok THEN err ELSE "VersionConflict"
    /\ UNCHANGED <<env, dry_run, cmd, pc, target_dir, dirs, files, backends,
                   idx, sys_modules, old_path, old_modules, entry,
                   last_run>>

\* func(): the tests import modules, may extend sys.path, and may raise
TestFunc ==
    /\ tpc = "func"
    /\ \E ok \in BOOLEAN, loaded \in (SUBSET TestModules) \ {{}},
          extended \in BOOLEAN :
          /\ sys_modules' = sys_modules \cup loaded
          /\ sys_path' = IF extended THEN Append(sys_path, "tests")
                         ELSE sys_path
          /\ log' = Append(log, Event("func", <<>>,
                                      IF ok THEN "ok" ELSE "TestFailure"))
          /\ err' = IF ok THEN err ELSE "TestFailure"
    /\ tpc' = "finally"
    /\ UNCHANGED <<env, dry_run, cmd, pc, target_dir, dirs, files, backends,
                   idx, old_path, old_modules, entry,
                   last_run>>

\* Variant: sys.modules.update(old_modules) without sys.modules.clear().
TestFinallyNoClear ==
    /\ tpc = "finally"
    /\ sys_path' = old_path
    /\ sys_modules' = sys_modules \cup old_modules
    /\ \E ok \in BOOLEAN :
          /\ log' = Append(log, Event("restore", <<>>,
                                      IF ok THEN "ok" ELSE "Exception"))
          /\ err' = IF ok THEN err ELSE "Exception"
          /\ tpc' = IF ok /\ err = "none" THEN "returned" ELSE "raised"
    /\ UNCHANGED <<env, dry_run, cmd, pc, target_dir, dirs, files, backends,
                   idx, old_path, old_modules, entry,
                   last_run>>

\* Variant: the finally block restores sys.modules but not sys.path.
TestFinallyKeepPath ==
    /\ tpc = "finally"
    /\ sys_modules' = old_modules
    /\ \E ok \in BOOLEAN :
          /\ log' = Append(log, Event("restore", <<>>,
                                      IF ok THEN "ok" ELSE "Exception"))
          /\ err' = IF ok THEN err ELSE "Exception"
          /\ tpc' = IF ok /\ err = "none" THEN "returned" ELSE "raised"
    /\ UNCHANGED <<env, dry_run, cmd, pc, target_dir, dirs, files, backends,
                   idx, sys_path, old_path, old_modules, entry,
                   last_run>>

\* finally: sys.path[:] = old_path ; sys.modules.clear() ;
\* sys.modules.update(old_modules) ; working_set.__init__()
TestFinally ==
    /\ tpc = "finally"
    /\ sys_path' = old_path
    /\ sys_modules' = old_modules
    /\ \E ok \in BOOLEAN :
          /\ log' = Append(log, Event("restore", <<>>,
                                      IF ok THEN "ok" ELSE "Exception"))
          /\ err' = IF ok THEN err ELSE "Exception"
          /\ tpc' = IF ok /\ err = "none" THEN "returned" ELSE "raised"
    /\ UNCHANGED <<env, dry_run, cmd, pc, target_dir, dirs, files, backends,
                   idx, old_path, old_modules, entry,
                   last_run>>

----------------------------------------------------------------------------
(* setup() runs the commands of the command line one after the other; an  *)
(* exception ends the process                                             *)

Returned ==
    IF cmd = "test" THEN tpc = "returned" ELSE pc = "Done"

Raised ==
    IF cmd = "test" THEN tpc = "raised" ELSE pc = "Failed"

NextCommand ==
    /\ Returned
    /\ \E c \in Commands :
          /\ cmd' = c
          /\ tpc' = IF c = "test" THEN "build_py" ELSE "none"
    /\ pc' = "Idle"
    /\ target_dir' = <<>>
    /\ backends' = <<>>
    /\ idx' = 0
    /\ log' = <<>>
    /\ old_path' = <<>>
    /\ old_modules' = {}
    /\ entry' = Snapshot
    /\ last_run' = IF dry_run THEN last_run
                   ELSE [last_run EXCEPT
                           ![target_dir] = [done |-> TRUE,
                                            files |-> ArtifactsIn(target_dir)]]
    /\ UNCHANGED <<env, dry_run, dirs, files, err, sys_path, sys_modules>>

Next ==
    \/ RunEnter
    \/ Mkpath
    \/ BuildModelsSelect
    \/ BuildModelsResolve
    \/ BuildModelsBuild
    \/ DefaultAction
    \/ TestBuildPy
    \/ TestEggInfo
    \/ TestBuildExt
    \/ TestSnapshot
    \/ TestInsert
    \/ TestWorkingSetInit
    \/ TestAddListener
    \/ TestRequire
    \/ TestFunc
    \/ TestFinally
    \/ NextCommand

Spec == Init /\ [][Next]_vars

----------------------------------------------------------------------------
(* Properties *)

\* C1: in a build_py or develop hook that is not a dry run, once
\* get_backend_class or build_model has raised, the default action
\* (build_py.run / develop.run) is never invoked in that invocation, the hook
\* is in its failed state with that error in flight, and the command does
\* not return normally.
C1_NoDefaultAfterFailedBuild ==
    \A i \in DOMAIN log :
        (log[i].op \in {"resolve", "build_model"} /\ log[i].res # "ok") =>
            /\ ~dry_run
            /\ Logged("default") = {}
            /\ pc = "Failed"
            /\ err = log[i].res
            /\ ~Returned

C1_Witness ==
    /\ cmd = "develop"
    /\ pc = "Failed"
    /\ err = "BuildError"
    /\ Len(backends) >= 2
    /\ idx = 2

\* C2: with dry_run set, while the build or develop hook runs and after it
\* ends, no directory is created, no artifact is written, STAN_BACKEND is not
\* read, nothing is resolved or built, fbprophet.models is not imported, and
\* the only call made is the default action, once.
C2_DryRunOnlyDefault ==
    (dry_run /\ tpc \in {"none", "build_py"}) =>
        /\ dirs = entry.dirs
        /\ files = entry.files
        /\ sys_modules = entry.modules
        /\ backends = <<>>
        /\ target_dir = <<>>
        /\ \A i \in DOMAIN log : log[i].op = "default"
        /\ Len(log) = IF pc \in {"Done", "Failed"} THEN 1 ELSE 0

C2_Witness ==
    /\ dry_run
    /\ cmd = "develop"
    /\ pc = "Done"
    /\ env.set
    /\ Len(env.val) = 3
    /\ DefaultRuns = 1

\* C3: a hook invocation that is not a dry run moves only along
\* Idle -> EnsureTargetDir -> Orchestrate -> DefaultLifecycleAction -> Done,
\* with Failed reached from Orchestrate (or from a failing default action);
\* Orchestrate is the positions select, resolve and build of build_models.
\* The target directory exists before STAN_BACKEND is read or any builder is
\* resolved or invoked, every name of the list has been built successfully
\* before the default action starts, the default action runs at most once and
\* exactly once when the hook is Done, and any failed resolution or build
\* leaves the hook in Failed.
C3_HookStateMachine ==
    /\ [](~dry_run =>
            /\ \A i \in DOMAIN log :
                  log[i].op \in {"getenv", "resolve", "build_model"} =>
                      /\ target_dir \in dirs
                      /\ \E j \in 1..(i-1) : log[j].op = "mkpath"
            /\ \A i \in Logged("default") :
                  /\ \A j \in 1..(i-1) : log[j].res = "ok"
                  /\ Cardinality({j \in 1..(i-1) :
                                    log[j].op = "build_model"})
                        = Len(backends)
                  /\ Len(backends) >= 1
                  /\ \A j \in (i+1)..Len(log) :
                        log[j].op \notin {"mkpath", "getenv", "resolve",
                                          "build_model", "default"}
            /\ pc = "Done" =>
                  \E i \in Logged("default") : log[i].res = "ok"
            /\ (\E i \in DOMAIN log :
                  /\ log[i].op \in {"resolve", "build_model"}
                  /\ log[i].res # "ok") => pc = "Failed")
    /\ [][~dry_run =>
            \/ pc' = pc
            \/ <<pc, pc'>> \in
                 { <<"Idle", "EnsureTargetDir">>,
                   <<"EnsureTargetDir", "select">>,
                   <<"select", "resolve">>,
                   <<"resolve", "build">>,
                   <<"build", "resolve">>,
                   <<"build", "DefaultLifecycleAction">>,
                   <<"resolve", "Failed">>,
                   <<"build", "Failed">>,
                   <<"DefaultLifecycleAction", "Done">>,
                   <<"DefaultLifecycleAction", "Failed">>,
                   <<"Done", "Idle">> }]_vars

C3_Witness ==
    /\ ~dry_run
    /\ cmd = "build_py"
    /\ pc = "Done"
    /\ Len(backends) >= 2
    /\ DefaultRuns = 1

\* C4: once with_project_on_sys_path has taken its snapshot and then exits,
\* normally or by an exception of the insertion, the working-set reset, the
\* listener registration, require, func or the final working-set reset,
\* sys.path equals old_path and the keys of sys.modules equal old_modules.
C4_RestoredToSnapshot ==
    (tpc \in {"returned", "raised"} /\ Logged("snapshot") # {}) =>
        /\ sys_path = old_path
        /\ sys_modules = old_modules
        /\ Logged("restore") # {}

C4_Witness ==
    /\ tpc = "raised"
    /\ err = "TestFailure"
    /\ Logged("func") # {}
    /\ Logged("restore") # {}
    /\ sys_path = old_path
    /\ sys_modules = old_modules

\* C5 as stated: after with_project_on_sys_path exits, sys.path and
\* sys.modules equal their values at entry, before the forced build.
C5_RestoredToEntry ==
    (cmd = "test" /\ tpc \in {"returned", "raised"}) =>
        /\ sys_path = entry.path
        /\ sys_modules = entry.modules

\* C5 amended: after with_project_on_sys_path exits, sys.path equals its
\* value at entry, and sys.modules holds the modules loaded at entry plus
\* fbprophet.models when the forced build ran build_models; whatever was
\* inserted or loaded after the snapshot is gone.
C5_RestoredToEntryPlusBuild ==
    (cmd = "test" /\ tpc \in {"returned", "raised"}) =>
        /\ sys_path = entry.path
        /\ sys_modules = entry.modules \cup
              (IF Logged("getenv") # {} THEN {ModelsModule} ELSE {})

C5_Witness ==
    /\ cmd = "test"
    /\ tpc = "returned"
    /\ Logged("func") # {}
    /\ ModelsModule \notin entry.modules
    /\ ModelsModule \in sys_modules
    /\ sys_path = entry.path

\* C6: the resolutions and builder invocations of one run of build_models
\* alternate resolve, build, resolve, build, ...; the k-th pair is for the
\* k-th name of the list; only the last call made can have failed, so after
\* a failure at index i every earlier name was resolved and built and no
\* later name is resolved or built.
C6_InOrderFailFast ==
    LET IsCall(e) == e.op \in {"resolve", "build_model"}
        calls == SelectSeq(log, IsCall)
    IN  /\ Len(calls) <= 2 * Len(backends)
        /\ \A k \in DOMAIN calls :
              /\ calls[k].op = IF k % 2 = 1 THEN "resolve" ELSE "build_model"
              /\ calls[k].arg = backends[(k + 1) \div 2]
              /\ calls[k].res # "ok" => k = Len(calls)
        /\ pc = "Failed" /\ err \in {"ConfigurationError", "BuildError"} =>
              /\ Len(calls) \in {2 * idx - 1, 2 * idx}
              /\ calls[Len(calls)].res = err

C6_Witness ==
    /\ pc = "Failed"
    /\ err = "BuildError"
    /\ Len(backends) = 3
    /\ idx = 2
    /\ Cardinality(Logged("build_model")) = 2

\* C7: no step removes a directory or an artifact, and when a run has failed
\* the target directory exists and holds every artifact that was there at
\* entry and every artifact the builders of this run wrote before the
\* failure.
C7_NoRollback ==
    /\ []((pc = "Failed" /\ err \in {"ConfigurationError", "BuildError"}) =>
            /\ target_dir \in dirs
            /\ entry.dirs \subseteq dirs
            /\ entry.files \subseteq files
            /\ \A i \in Logged("build_model") :
                  log[i].res = "ok" => <<target_dir, log[i].arg>> \in files)
    /\ [][dirs \subseteq dirs' /\ files \subseteq files']_vars

C7_Witness ==
    /\ pc = "Failed"
    /\ err = "ConfigurationError"
    /\ idx = 2
    /\ <<target_dir, backends[1]>> \in files
    /\ <<target_dir, backends[1]>> \notin entry.files

\* C8: a name outside StanBackendEnum always fails resolution, no builder is
\* ever invoked for it, and a hook whose list holds such a name never starts
\* the default action and never returns normally; when its resolution fails
\* the target directory already exists.
C8_UnknownNameFails ==
    /\ \A i \in Logged("resolve") :
          log[i].arg \notin StanBackendEnum =>
              /\ log[i].res = "ConfigurationError"
              /\ pc = "Failed"
              /\ err = "ConfigurationError"
              /\ target_dir \in dirs
    /\ \A i \in Logged("build_model") : log[i].arg \in StanBackendEnum
    /\ (\E k \in DOMAIN backends : backends[k] \notin StanBackendEnum) =>
          /\ Logged("default") = {}
          /\ pc # "Done"
          /\ ~Returned

C8_Witness ==
    /\ cmd = "build_py"
    /\ pc = "Failed"
    /\ err = "ConfigurationError"
    /\ backends = << <<"backendX">> >>
    /\ target_dir \in dirs
    /\ Logged("default") = {}

\* C9: a present-but-blank STAN_BACKEND selects the one-element list holding
\* the empty name; an empty element at the start, at the end or between two
\* adjacent commas is kept at its position; an empty name that is resolved
\* fails resolution, and a hook whose list holds one never starts the default
\* action.
C9_BlankNameKept ==
    LET v == env.val
        r == get_backends_from_env
        CommasBefore(k) == Cardinality({j \in 1..(k-1) : v[j] = Comma})
    IN  /\ (env.set /\ v = <<>>) => r = << <<>> >>
        /\ env.set =>
              /\ Len(r) = CommasBefore(Len(v) + 1) + 1
              /\ \A k \in 1..Len(v) :
                    (v[k] = Comma /\ (k = 1 \/ v[k-1] = Comma)) =>
                        r[CommasBefore(k) + 1] = <<>>
              /\ (v # <<>> /\ v[Len(v)] = Comma) => r[Len(r)] = <<>>
        /\ (~dry_run /\ Logged("getenv") # {}) => backends = r
        /\ \A i \in Logged("resolve") :
              log[i].arg = <<>> => log[i].res = "ConfigurationError"
        /\ (\E k \in DOMAIN backends : backends[k] = <<>>) =>
              /\ Logged("default") = {}
              /\ pc # "Done"

C9_Witness ==
    /\ env.set
    /\ env.val = <<>>
    /\ backends = << <<>> >>
    /\ pc = "Failed"
    /\ err = "ConfigurationError"

\* C10: get_backends_from_env is the one-element list of PYSTAN when
\* STAN_BACKEND is unset; otherwise its k-th element is the text between the
\* (k-1)-th and the k-th comma of the value, for every k up to the number of
\* commas plus one, whether or not the element repeats or names a backend;
\* build_models iterates over exactly that list.
C10_SelectionIsSplit ==
    LET v == env.val
        r == get_backends_from_env
        CommaPos == {i \in 1..Len(v) : v[i] = Comma}
        n == Cardinality(CommaPos)
        P(k) == IF k = 0 THEN 0
                ELSE IF k = n + 1 THEN Len(v) + 1
                ELSE CHOOSE i \in CommaPos :
                        Cardinality({j \in CommaPos : j <= i}) = k
    IN  /\ ~env.set => r = <<PYSTAN>>
        /\ env.set =>
              /\ Len(r) = n + 1
              /\ \A k \in 1..(n + 1) :
                    k \in DOMAIN r /\ r[k] = SubSeq(v, P(k-1) + 1, P(k) - 1)
        /\ \A a \in Chunks, b \in Chunks, c \in Chunks :
              (env.set /\ v = <<a, Comma, b, Comma, c>>) =>
                  r = << <<a>>, <<b>>, <<c>> >>
        /\ Logged("getenv") # {} => backends = r

C10_Witness ==
    /\ env.set
    /\ env.val = <<"CMDSTANPY", Comma, "backendX", Comma, "CMDSTANPY">>
    /\ pc = "resolve"
    /\ idx = 1
    /\ backends = <<CMDSTANPY, <<"backendX">>, CMDSTANPY>>

\* C11 as stated: when the loop of build_models has completed, every name of
\* the list has had exactly one build_model invocation in this run, also
\* when the list repeats the name.
C11_OncePerBackend ==
    (~dry_run /\ pc \in {"DefaultLifecycleAction", "Done"}) =>
        \A k \in DOMAIN backends :
            Cardinality({i \in Logged("build_model") :
                           log[i].arg = backends[k]}) = 1

\* C11 amended: build_model is invoked once per entry of the list, not once
\* per distinct name.  At every point of a run the number of invocations for
\* a name is at most the number of times the list holds the name (none for a
\* name the list does not hold), and when the loop has completed it is
\* exactly that number: one for a name listed once, two for a name listed
\* twice.
C11_OncePerListEntry ==
    LET Calls(n) == Cardinality({i \in Logged("build_model") :
                                   log[i].arg = n})
        Occurrences(n) == Cardinality({k \in DOMAIN backends :
                                         backends[k] = n})
    IN  /\ \A i \in Logged("build_model") :
              /\ Calls(log[i].arg) <= Occurrences(log[i].arg)
              /\ Calls(log[i].arg) >= 1
        /\ (~dry_run /\ pc \in {"DefaultLifecycleAction", "Done"}) =>
              \A k \in DOMAIN backends :
                  Calls(backends[k]) = Occurrences(backends[k])

C11_Witness ==
    /\ ~dry_run
    /\ pc = "Done"
    /\ backends = <<PYSTAN, CMDSTANPY, PYSTAN>>
    /\ Cardinality({i \in Logged("build_model") : log[i].arg = PYSTAN}) = 2
    /\ Cardinality({i \in Logged("build_model") : log[i].arg = CMDSTANPY}) = 1

\* C12: when build_models completes against a target directory that an
\* earlier completed run of the same process (same STAN_BACKEND, hence the
\* same list) has already built into, the artifacts under that directory are
\* exactly the artifacts the earlier run left there.
C12_SecondRunSameArtifacts ==
    (/\ ~dry_run
     /\ pc \in {"DefaultLifecycleAction", "Done"}
     /\ last_run[target_dir].done) =>
        ArtifactsIn(target_dir) = last_run[target_dir].files

C12_Witness ==
    /\ ~dry_run
    /\ cmd = "build_py"
    /\ pc = "Done"
    /\ last_run[target_dir].done
    /\ Cardinality(Logged("build_model")) = 2
    /\ ArtifactsIn(target_dir) = {<<target_dir, PYSTAN>>,
                                  <<target_dir, CMDSTANPY>>}

C14_HooksLeaveResolutionState ==
    [][pc' # pc => (sys_path' = sys_path /\ sys_modules' = sys_modules)]_vars

\* C14 amended: no step of BuildPyCommand.run, DevelopCommand.run,
\* build_models or get_backends_from_env changes sys.path or removes a module
\* from sys.modules; the only change such a step makes is that the import in
\* build_models adds fbprophet.models to sys.modules.  Every step that
\* changes sys.path, or changes sys.modules in any other way, is a step of
\* with_project_on_sys_path.
C14_HooksOnlyImportModels ==
    [][/\ pc' # pc =>
            /\ sys_path' = sys_path
            /\ sys_modules \subseteq sys_modules'
            /\ sys_modules' \subseteq sys_modules \cup {ModelsModule}
            /\ sys_modules' # sys_modules => pc = "select"
       /\ (\/ sys_path' # sys_path
           \/ ~(sys_modules \subseteq sys_modules')
           \/ ~(sys_modules' \subseteq sys_modules \cup {ModelsModule})) =>
            (tpc' # tpc /\ tpc \in {"insert", "require", "func", "finally"})
      ]_vars

C14_Witness ==
    /\ cmd = "develop"
    /\ pc = "Done"
    /\ ~dry_run
    /\ ModelsModule \notin entry.modules
    /\ sys_modules = entry.modules \cup {ModelsModule}
    /\ sys_path = entry.path

\* C15: func is called at most once, and only directly after the snapshot,
\* the insertion of the staging location at the front of sys.path, the
\* working-set reset, the listener registration and a successful require,
\* made in this order with no other call in between; when func is about
\* to run the staging location is the first entry of sys.path; when require
\* has failed func is never called, the error stays in flight, and
\* with_project_on_sys_path raises only after the finally block has restored
\* sys.path and sys.modules.
C15_FuncAfterRequire ==
    /\ \A i \in Logged("func") :
          /\ i > 5
          /\ log[i-5].op = "snapshot"
          /\ log[i-4].op = "insert"   /\ log[i-4].res = "ok"
          /\ log[i-3].op = "ws_init"  /\ log[i-3].res = "ok"
          /\ log[i-2].op = "listener" /\ log[i-2].res = "ok"
          /\ log[i-1].op = "require"  /\ log[i-1].res = "ok"
          /\ Cardinality(Logged("func")) = 1
    /\ tpc = "func" =>
          /\ sys_path # <<>>
          /\ sys_path[1] = build_lib
          /\ log[Len(log)].op = "require"
          /\ err = "none"
    /\ (\E i \in Logged("require") : log[i].res # "ok") =>
          /\ Logged("func") = {}
          /\ tpc \in {"finally", "raised"}
          /\ err # "none"
          /\ tpc = "raised" =>
                /\ Logged("restore") # {}
                /\ sys_path = old_path
                /\ sys_modules = old_modules

C15_Witness ==
    /\ tpc = "finally"
    /\ err = "none"
    /\ Logged("func") # {}
    /\ Logged("require") # {}
    /\ sys_path[1] = build_lib
    /\ Len(sys_path) >= 3

\* C16: the snapshot is taken only after build_py (the hook and its default
\* action), egg_info and build_ext have completed, in this order; when one
\* of them has failed, with_project_on_sys_path raises with the error in
\* flight without taking the snapshot, inserting into sys.path, calling func
\* or entering the finally block, and sys.path is what it was at entry.
C16_BuildBeforeSnapshot ==
    /\ \A i \in Logged("snapshot") :
          /\ pc = "Done"
          /\ \E a \in 1..i, b \in 1..i, c \in 1..i :
                /\ a < b /\ b < c /\ c < i
                /\ log[a].op = "default"   /\ log[a].res = "ok"
                /\ log[b].op = "egg_info"  /\ log[b].res = "ok"
                /\ log[c].op = "build_ext" /\ log[c].res = "ok"
          /\ \A j \in 1..(i-1) : log[j].res = "ok"
    /\ (/\ cmd = "test"
        /\ \/ pc = "Failed"
           \/ \E i \in Logged("egg_info") \cup Logged("build_ext") :
                 log[i].res # "ok") =>
          /\ err # "none"
          /\ tpc \in {"build_py", "raised"}
          /\ Logged("snapshot") = {}
          /\ Logged("insert") = {}
          /\ Logged("func") = {}
          /\ Logged("restore") = {}
          /\ sys_path = entry.path
          /\ old_path = <<>>

C16_Witness ==
    /\ cmd = "test"
    /\ tpc = "raised"
    /\ pc = "Failed"
    /\ err = "BuildError"
    /\ Logged("snapshot") = {}
    /\ sys_path = entry.path

====
